---- MODULE Spec2Model ----
(***************************************************************************)
(* State-machine model of the calculator component App (src/src/App.jsx). *)
(*                                                                         *)
(* Text (the expression buffer, the display, equations) is modelled as a  *)
(* sequence of one-character strings, so that slicing, suffix tests and   *)
(* the regular-expression rewrites act on characters as the code does.    *)
(* One action models one event handler together with the render that      *)
(* React performs after it (the memoised scope and the keydown listener   *)
(* are refreshed by that render exactly when their dependency lists say). *)
(***************************************************************************)
EXTENDS Integers, Sequences, FiniteSets, TLC

VARIABLES
    expr,          \* useState "expr": the expression buffer
    display,       \* useState "display": the result line
    degMode,       \* useState "degMode"
    memory,        \* useState "memory"
    originalExpr,  \* useState "originalExpr"
    afterEquals,   \* useState "afterEquals"
    history,       \* useState "history": sequence of [eq, res], newest first
    lastAns,       \* useRef lastAns.current
    scope,         \* the memoised evaluation scope (useMemo, deps [memory])
    handler,       \* what the registered keydown listener closed over
    last           \* the last event handled and what it handed to the engine

vars == <<expr, display, degMode, memory, originalExpr, afterEquals,
          history, lastAns, scope, handler, last>>

-----------------------------------------------------------------------------
(* Bounds of the exploration *)

\* longest buffer explored
MaxLen == 3

\* longest buffer explored with the trigonometric buttons
MaxTrigLen == 6

\* longest buffer explored with the sign toggle
MaxSignLen == 9

\* largest magnitude of the memory register explored
MaxMem == 1

\* in Spec, equals is explored while the tape holds fewer entries than this
MaxTape == 1

\* capacity of the history tape: slice(0, 10)
HistoryCap == 10

-----------------------------------------------------------------------------
(* Characters and text *)

DigitChars == <<"0", "1", "2", "3", "4", "5", "6", "7", "8", "9">>

IsDigit(c) == c \in {DigitChars[i] : i \in 1..10}

Lower == {"a", "b", "c", "d", "e", "f", "g", "h", "i", "j", "k", "l", "m",
          "n", "o", "p", "q", "r", "s", "t", "u", "v", "w", "x", "y", "z"}

Upper == {"A", "B", "C", "D", "E", "F", "G", "H", "I", "J", "K", "L", "M",
          "N", "O", "P", "Q", "R", "S", "T", "U", "V", "W", "X", "Y", "Z"}

IsLetter(c) == c \in Lower \cup Upper

\* the class [A-Za-z0-9_] of the look-behinds
IsWordChar(c) == IsLetter(c) \/ IsDigit(c) \/ c = "_"

\* the class [+\-*/^,(] tested at the end of the buffer
IsOpenEnd(c) == c \in {"+", "-", "*", "/", "^", ",", "("}

\* /^[+\-*/^]$/.test(text)
IsOp(text) == Len(text) = 1 /\ text[1] \in {"+", "-", "*", "/", "^"}

StartsWith(s, p) == Len(s) >= Len(p) /\ SubSeq(s, 1, Len(p)) = p

MatchAt(s, i, p) == i + Len(p) - 1 <= Len(s) /\ SubSeq(s, i, i + Len(p) - 1) = p

\* s.slice(1)
Slice1(s) == SubSeq(s, 2, Len(s))

\* s.slice(0, -1)
DropLast(s) == SubSeq(s, 1, Len(s) - 1)

RECURSIVE DigitsOf(_)
DigitsOf(n) ==
    IF n < 10 THEN <<DigitChars[n + 1]>>
    ELSE DigitsOf(n \div 10) \o <<DigitChars[(n % 10) + 1]>>

\* String(val) for an integer-valued number
ToStr(n) == IF n < 0 THEN <<"-">> \o DigitsOf(0 - n) ELSE DigitsOf(n)

ZeroText == <<"0">>
ErrorText == <<"E", "r", "r", "o", "r">>
AnsName == <<"A", "n", "s">>
MemName == <<"M", "e", "m">>
SinCall == <<"s", "i", "n", "(">>
CosCall == <<"c", "o", "s", "(">>
TanCall == <<"t", "a", "n", "(">>
AsinCall == <<"a", "s", "i", "n", "(">>
AcosCall == <<"a", "c", "o", "s", "(">>
AtanCall == <<"a", "t", "a", "n", "(">>
SindCall == <<"s", "i", "n", "d", "(">>
CosdCall == <<"c", "o", "s", "d", "(">>
TandCall == <<"t", "a", "n", "d", "(">>
AsindCall == <<"a", "s", "i", "n", "d", "(">>
AcosdCall == <<"a", "c", "o", "s", "d", "(">>
AtandCall == <<"a", "t", "a", "n", "d", "(">>

-----------------------------------------------------------------------------
(* The degree-mode rewrite of evaluateSafe *)

RECURSIVE ReplaceFrom(_, _, _, _)
\* s.replaceAll(/(?<![A-Za-z0-9_])pat/g, rep), scanning from position i:
\* a match needs the character before it in s not to be a word character
ReplaceFrom(s, i, pat, rep) ==
    IF i > Len(s) THEN <<>>
    ELSE IF MatchAt(s, i, pat) /\ (i = 1 \/ ~IsWordChar(s[i - 1]))
         THEN rep \o ReplaceFrom(s, i + Len(pat), pat, rep)
         ELSE <<s[i]>> \o ReplaceFrom(s, i + 1, pat, rep)

ReplaceAll(s, pat, rep) == ReplaceFrom(s, 1, pat, rep)

\* the chain of six replaceAll calls, in the order of the code
DegRewrite(raw) ==
    LET s1 == ReplaceAll(raw, SinCall, SindCall)
        s2 == ReplaceAll(s1, CosCall, CosdCall)
        s3 == ReplaceAll(s2, TanCall, TandCall)
        s4 == ReplaceAll(s3, AsinCall, AsindCall)
        s5 == ReplaceAll(s4, AcosCall, AcosdCall)
    IN  ReplaceAll(s5, AtanCall, AtandCall)

-----------------------------------------------------------------------------
(* The math engine, math.evaluate(s, scope).                                *)
(* The engine is an external library; the model interprets the part of its *)
(* expression language that the explored buffers can exercise: decimal     *)
(* integers, the scope variables Ans and Mem, unary and binary + and -,    *)
(* explicit and implicit multiplication, and parentheses.  A parse result  *)
(* is [ok, val, pos, kind]: pos is the first unread position, kind tells  *)
(* a number literal ("const") and a unary-operator node ("op") from any    *)
(* other node, as the engine's implicit-multiplication rule needs.         *)
(* Any other symbol the explored buffers can hold (a prefix of Ans, Mem,   *)
(* Error, sin( or asin(, possibly with digits after it) is undefined, a    *)
(* unit or a function for the engine, which the adapter cannot turn into a *)
(* number, and an unclosed call or parenthesis is a syntax error: all of   *)
(* these throw.  The one exception is the symbol E (Euler's number, not an *)
(* integer): buffers that hold it are outside the model, see InDomain.     *)
(* A call can never be closed by the explored inputs (no ")" is typed, and *)
(* the parentheses of the sign toggle wrap the whole buffer), so a symbol  *)
(* followed by "(" always ends in a syntax error.                          *)

Fail == [ok |-> FALSE, val |-> 0, pos |-> 0, kind |-> "none"]

Node(v, p, k) == [ok |-> TRUE, val |-> v, pos |-> p, kind |-> k]

RECURSIVE NumberEnd(_, _)
\* first position at or after i that holds no digit
NumberEnd(s, i) == IF i <= Len(s) /\ IsDigit(s[i]) THEN NumberEnd(s, i + 1) ELSE i

RECURSIVE SymbolEnd(_, _)
\* first position at or after i that holds no word character
SymbolEnd(s, i) == IF i <= Len(s) /\ IsWordChar(s[i]) THEN SymbolEnd(s, i + 1) ELSE i

DigitVal(c) == CHOOSE d \in 0..9 : DigitChars[d + 1] = c

RECURSIVE NumberVal(_, _, _)
\* value of the digits s[i..j-1]
NumberVal(s, i, j) ==
    IF j <= i THEN 0 ELSE NumberVal(s, i, j - 1) * 10 + DigitVal(s[j - 1])

\* the nodes the engine builds from parsed operands; a failed operand fails
\* the whole parse
Add(l, op, r) ==
    IF ~r.ok THEN Fail
    ELSE Node(IF op = "+" THEN l.val + r.val ELSE l.val - r.val, r.pos, "other")

Mul(l, r) == IF ~r.ok THEN Fail ELSE Node(l.val * r.val, r.pos, "other")

Signed(op, r) ==
    IF ~r.ok THEN Fail ELSE Node(IF op = "-" THEN 0 - r.val ELSE r.val, r.pos, "op")

Closed(s, r) ==
    IF r.ok /\ r.pos <= Len(s) /\ s[r.pos] = ")" THEN Node(r.val, r.pos + 1, "other")
    ELSE Fail

Whole(s, r) ==
    IF r.ok /\ r.pos = Len(s) + 1 THEN [ok |-> TRUE, val |-> r.val]
    ELSE [ok |-> FALSE, val |-> 0]

RECURSIVE ParseSum(_, _, _), SumRest(_, _, _), ParseProd(_, _, _), ProdRest(_, _, _),
          ParseImplicit(_, _, _), ImplicitRest(_, _, _, _), ImplicitStep(_, _, _, _),
          ParseUnary(_, _, _), ParsePrimary(_, _, _)

\* parseAddSubtract
ParseSum(s, i, sc) == SumRest(s, ParseProd(s, i, sc), sc)

SumRest(s, acc, sc) ==
    IF ~acc.ok THEN Fail
    ELSE IF acc.pos <= Len(s) /\ s[acc.pos] \in {"+", "-"}
         THEN SumRest(s, Add(acc, s[acc.pos], ParseProd(s, acc.pos + 1, sc)), sc)
         ELSE acc

\* parseMultiplyDivide
ParseProd(s, i, sc) == ProdRest(s, ParseImplicit(s, i, sc), sc)

ProdRest(s, acc, sc) ==
    IF ~acc.ok THEN Fail
    ELSE IF acc.pos <= Len(s) /\ s[acc.pos] = "*"
         THEN ProdRest(s, Mul(acc, ParseImplicit(s, acc.pos + 1, sc)), sc)
         ELSE acc

\* parseImplicitMultiplication: the first factor multiplies the empty product
ParseImplicit(s, i, sc) == ImplicitStep(s, Node(1, i, "other"), ParseUnary(s, i, sc), sc)

ImplicitStep(s, acc, r, sc) == ImplicitRest(s, Mul(acc, r), r, sc)

\* the next factor is multiplied in when it starts with a symbol, with "(",
\* or with a number that follows neither a number literal nor an operator node
ImplicitRest(s, acc, prev, sc) ==
    IF ~acc.ok THEN Fail
    ELSE IF /\ acc.pos <= Len(s)
            /\ \/ IsLetter(s[acc.pos])
               \/ s[acc.pos] = "("
               \/ IsDigit(s[acc.pos]) /\ prev.kind = "other"
         THEN ImplicitStep(s, acc, ParseUnary(s, acc.pos, sc), sc)
         ELSE acc

\* parseUnary
ParseUnary(s, i, sc) ==
    IF i <= Len(s) /\ s[i] \in {"+", "-"}
    THEN Signed(s[i], ParseUnary(s, i + 1, sc))
    ELSE ParsePrimary(s, i, sc)

\* parseSymbol, parseNumber, parseParentheses
ParsePrimary(s, i, sc) ==
    IF i > Len(s) THEN Fail
    ELSE IF IsDigit(s[i])
         THEN Node(NumberVal(s, i, NumberEnd(s, i)), NumberEnd(s, i), "const")
    ELSE IF IsLetter(s[i])
         THEN LET j == SymbolEnd(s, i)
                  name == SubSeq(s, i, j - 1)
              IN  IF j <= Len(s) /\ s[j] = "(" THEN Fail
                  ELSE IF name = AnsName THEN Node(sc.Ans, j, "other")
                  ELSE IF name = MemName THEN Node(sc.Mem, j, "other")
                  ELSE Fail
    ELSE IF s[i] = "(" THEN Closed(s, ParseSum(s, i + 1, sc))
    ELSE Fail

\* math.evaluate(s, scope): a number, or a thrown error
MathEvaluate(s, sc) == Whole(s, ParseSum(s, 1, sc))

\* evaluateSafe as defined in a render whose degMode is deg and whose scope
\* is sc: what it hands to the engine, and what comes back
Handed(raw, deg) == IF deg THEN DegRewrite(raw) ELSE raw

evaluateSafe(raw, deg, sc) ==
    IF raw = <<>> THEN [ok |-> TRUE, val |-> 0]
    ELSE MathEvaluate(Handed(raw, deg), sc)

-----------------------------------------------------------------------------
(* The component *)

Min(a, b) == IF a < b THEN a ELSE b

\* what the handlers defined in the current render close over
Rendered ==
    [expr |-> expr, display |-> display, afterEquals |-> afterEquals,
     originalExpr |-> originalExpr, degMode |-> degMode, scope |-> scope]

InitialScope == [Ans |-> 0, Mem |-> 0]

NoEval == [called |-> FALSE, raw |-> <<>>, handed |-> <<>>, scope |-> InitialScope]

\* the record of the call evaluateSafe(raw) of the render cl: the text it
\* hands to math.evaluate and the scope it passes
EvalOf(raw, cl) ==
    [called |-> TRUE, raw |-> raw, handed |-> Handed(raw, cl.degMode), scope |-> cl.scope]

Event(name, arg, ev) == [op |-> name, arg |-> arg, eval |-> ev]

\* The render after a handler: useMemo recomputes the scope when memory
\* changed, reading lastAns.current then; useEffect registers a new keydown
\* listener when afterEquals, display or expr changed.
Render ==
    /\ scope' = IF memory' # memory THEN [Ans |-> lastAns', Mem |-> memory'] ELSE scope
    /\ handler' = IF <<afterEquals', display', expr'>> # <<afterEquals, display, expr>>
                  THEN [expr |-> expr', display |-> display', afterEquals |-> afterEquals',
                        originalExpr |-> originalExpr', degMode |-> degMode', scope |-> scope']
                  ELSE handler

Init ==
    /\ expr = <<>>
    /\ display = ZeroText
    /\ degMode = TRUE
    /\ memory = 0
    /\ originalExpr = <<>>
    /\ afterEquals = FALSE
    /\ history = <<>>
    /\ lastAns = 0
    /\ scope = InitialScope
    /\ handler = [expr |-> <<>>, display |-> ZeroText, afterEquals |-> FALSE,
                  originalExpr |-> <<>>, degMode |-> TRUE, scope |-> InitialScope]
    /\ last = Event("init", <<>>, NoEval)

\* mutant: the slice is forgotten
pushHistoryUncapped(h, eq, res) == <<[eq |-> eq, res |-> res]>> \o h

\* mutant: slice(-10) instead of slice(0, 10), which drops the newest entry
pushHistoryKeepOldest(h, eq, res) ==
    LET n == <<[eq |-> eq, res |-> res]>> \o h
    IN  IF Len(n) > HistoryCap THEN SubSeq(n, Len(n) - HistoryCap + 1, Len(n)) ELSE n

\* [{ eq, res }, ...h].slice(0, 10)
pushHistory(h, eq, res) ==
    LET n == <<[eq |-> eq, res |-> res]>> \o h
    IN  SubSeq(n, 1, Min(Len(n), HistoryCap))

\* mutant: an operator after equals is appended to the buffer, not to the result
insertTextNoContinue(cl, s, text) ==
    IF cl.afterEquals /\ ~IsOp(text) THEN text ELSE s \o text

\* the updater of insert: the next buffer
insertText(cl, s, text) ==
    IF cl.afterEquals
    THEN IF IsOp(text) THEN cl.display \o text ELSE text
    ELSE s \o text

\* insert(text) of the render cl
insert(cl, text) ==
    /\ expr' = insertText(cl, expr, text)
    /\ afterEquals' = IF cl.afterEquals THEN FALSE ELSE afterEquals
    /\ originalExpr' = IF cl.afterEquals /\ ~IsOp(text) THEN <<>> ELSE originalExpr
    /\ UNCHANGED <<display, degMode, memory, history, lastAns>>
    /\ last' = Event("insert", text, NoEval)
    /\ Render

\* a button whose onClick is insert(text)
ButtonInsert(text) == insert(Rendered, text)

\* a digit, operator or parenthesis key: insert(key) of the registered listener
KeyInsert(key) == insert(handler, <<key>>)

\* the Back button and the Backspace key
backspace ==
    /\ expr' = IF Len(expr) > 0 THEN DropLast(expr) ELSE <<>>
    /\ UNCHANGED <<display, degMode, memory, originalExpr, afterEquals, history, lastAns>>
    /\ last' = Event("backspace", <<>>, NoEval)
    /\ Render

\* mutant: AC also resets the memory register
clearAllAndMemory ==
    /\ expr' = <<>>
    /\ display' = ZeroText
    /\ originalExpr' = <<>>
    /\ afterEquals' = FALSE
    /\ memory' = 0
    /\ UNCHANGED <<degMode, history, lastAns>>
    /\ last' = Event("clearAll", <<>>, NoEval)
    /\ Render

\* the AC button and the Escape key
clearAll ==
    /\ expr' = <<>>
    /\ display' = ZeroText
    /\ originalExpr' = <<>>
    /\ afterEquals' = FALSE
    /\ UNCHANGED <<degMode, memory, history, lastAns>>
    /\ last' = Event("clearAll", <<>>, NoEval)
    /\ Render

\* the updater of useConstant and of mr
appendName(s, name) ==
    IF s = <<>> \/ IsOpenEnd(s[Len(s)]) THEN s \o name ELSE s \o <<"*">> \o name

useAns ==
    /\ expr' = appendName(expr, AnsName)
    /\ UNCHANGED <<display, degMode, memory, originalExpr, afterEquals, history, lastAns>>
    /\ last' = Event("useAns", <<>>, NoEval)
    /\ Render

mr ==
    /\ expr' = appendName(expr, MemName)
    /\ UNCHANGED <<display, degMode, memory, originalExpr, afterEquals, history, lastAns>>
    /\ last' = Event("mr", <<>>, NoEval)
    /\ Render

\* mutant: display || expr instead of expr || display
memoryAddDisplayFirst(sign, name) ==
    LET raw == IF display # <<>> THEN display ELSE expr
        v == evaluateSafe(raw, degMode, scope)
    IN  /\ memory' = IF v.ok THEN memory + sign * v.val ELSE memory
        /\ UNCHANGED <<expr, display, degMode, originalExpr, afterEquals, history, lastAns>>
        /\ last' = Event(name, <<>>, EvalOf(raw, Rendered))
        /\ Render

\* the body shared by mPlus (sign 1) and mMinus (sign -1)
memoryAdd(sign, name) ==
    LET raw == IF expr # <<>> THEN expr ELSE display
        v == evaluateSafe(raw, degMode, scope)
    IN  /\ memory' = IF v.ok THEN memory + sign * v.val ELSE memory
        /\ UNCHANGED <<expr, display, degMode, originalExpr, afterEquals, history, lastAns>>
        /\ last' = Event(name, <<>>, EvalOf(raw, Rendered))
        /\ Render

mPlus == memoryAdd(1, "mPlus")

mMinus == memoryAdd(-1, "mMinus")

\* d.startsWith("-") ? d.slice(1) : "-" + d
negate(d) == IF StartsWith(d, <<"-">>) THEN Slice1(d) ELSE <<"-">> \o d

toggleSign ==
    /\ IF expr = <<>>
       THEN IF display = ZeroText
            THEN UNCHANGED <<expr, display>>
            ELSE expr' = negate(display) /\ display' = negate(display)
       ELSE expr' = <<"(", "-", "1", ")", "*", "(">> \o expr \o <<")">> /\ UNCHANGED display
    /\ UNCHANGED <<degMode, memory, originalExpr, afterEquals, history, lastAns>>
    /\ last' = Event("toggleSign", <<>>, NoEval)
    /\ Render

\* expr || originalExpr || String(display), in the render cl
equation(cl) ==
    IF cl.expr # <<>> THEN cl.expr
    ELSE IF cl.originalExpr # <<>> THEN cl.originalExpr
    ELSE cl.display

\* mutant: the catch block also forgets the remembered expression
equalsErrorForgets(cl) ==
    LET eq == equation(cl)
        v == evaluateSafe(eq, cl.degMode, cl.scope)
    IN  /\ IF v.ok
           THEN /\ lastAns' = v.val
                /\ originalExpr' = eq
                /\ display' = ToStr(v.val)
                /\ afterEquals' = TRUE
                /\ history' = pushHistory(history, eq, ToStr(v.val))
           ELSE /\ display' = ErrorText
                /\ afterEquals' = TRUE
                /\ originalExpr' = <<>>
                /\ UNCHANGED <<lastAns, history>>
        /\ UNCHANGED <<expr, degMode, memory>>
        /\ last' = Event("equals", <<>>, EvalOf(eq, cl))
        /\ Render

\* equals() of the render cl
equals(cl) ==
    LET eq == equation(cl)
        v == evaluateSafe(eq, cl.degMode, cl.scope)
    IN  /\ IF v.ok
           THEN /\ lastAns' = v.val
                /\ originalExpr' = eq
                /\ display' = ToStr(v.val)
                /\ afterEquals' = TRUE
                /\ history' = pushHistory(history, eq, ToStr(v.val))
           ELSE /\ display' = ErrorText
                /\ afterEquals' = TRUE
                /\ UNCHANGED <<lastAns, originalExpr, history>>
        /\ UNCHANGED <<expr, degMode, memory>>
        /\ last' = Event("equals", <<>>, EvalOf(eq, cl))
        /\ Render

\* the = button
ButtonEquals == equals(Rendered)

\* the Enter and = keys: equals() of the registered listener
KeyEquals == equals(handler)

\* a click on the i-th row of the tape
recall(i) ==
    /\ i \in 1..Len(history)
    /\ expr' = history[i].eq
    /\ originalExpr' = history[i].eq
    /\ display' = history[i].res
    /\ afterEquals' = TRUE
    /\ UNCHANGED <<degMode, memory, history, lastAns>>
    /\ last' = Event("recall", <<>>, NoEval)
    /\ Render

clearHistory ==
    /\ history' = <<>>
    /\ UNCHANGED <<expr, display, degMode, memory, originalExpr, afterEquals, lastAns>>
    /\ last' = Event("clearHistory", <<>>, NoEval)
    /\ Render

\* the Deg and Rad radio buttons: onChange fires on the one not checked
setDegMode(b) ==
    /\ b # degMode
    /\ degMode' = b
    /\ UNCHANGED <<expr, display, memory, originalExpr, afterEquals, history, lastAns>>
    /\ last' = Event("setDegMode", <<>>, NoEval)
    /\ Render

\* the non-breaking space shown when there is nothing to show
NbspText == <<"nbsp">>

\* the line above the result: originalExpr || expr || " "
smallLine ==
    IF originalExpr # <<>> THEN originalExpr
    ELSE IF expr # <<>> THEN expr
    ELSE NbspText

-----------------------------------------------------------------------------
(* The explored part of the state space *)

\* the symbol E alone is Euler's number for the engine
HoldsE(s) ==
    \E i \in 1..Len(s) :
        /\ s[i] = "E"
        /\ (i = 1 \/ ~IsWordChar(s[i - 1]))
        /\ (i = Len(s) \/ ~IsWordChar(s[i + 1]))

InDomain(s) == ~HoldsE(s)

Explored ==
    /\ Len(expr) <= MaxLen
    /\ InDomain(expr)
    /\ memory \in (0 - MaxMem)..MaxMem
    /\ Len(history) <= MaxTape

\* the texts of the explored insert buttons, and the explored insert keys
InsertTexts == {<<"1">>, <<"+">>}

InsertKeys == {"1"}

\* Buffer editing and equals
Next ==
    \/ \E t \in InsertTexts : ButtonInsert(t) /\ Explored'
    \/ \E k \in InsertKeys : KeyInsert(k) /\ Explored'
    \/ backspace /\ Explored'
    \/ clearAll /\ Explored'
    \/ ButtonEquals /\ Explored'
    \/ KeyEquals /\ Explored'

Spec == Init /\ [][Next]_vars

\* The memory register
MemoryTexts == {<<"1">>}

NextMemory ==
    \/ \E t \in MemoryTexts : ButtonInsert(t) /\ Explored'
    \/ backspace /\ Explored'
    \/ mr /\ Explored'
    \/ mPlus /\ Explored'
    \/ mMinus /\ Explored'
    \/ ButtonEquals /\ Explored'

SpecMemory == Init /\ [][NextMemory]_vars

\* Ans, clear all and the angle mode
NextAns ==
    \/ \E t \in MemoryTexts : ButtonInsert(t) /\ Explored'
    \/ clearAll /\ Explored'
    \/ useAns /\ Explored'
    \/ mPlus /\ Explored'
    \/ ButtonEquals /\ Explored'
    \/ clearHistory /\ Explored'
    \/ \E b \in BOOLEAN : setDegMode(b) /\ Explored'

SpecAns == Init /\ [][NextAns]_vars

\* The angle mode and the trigonometric buttons
TrigTexts == {<<"1">>, SinCall, AsinCall}

ExploredMode ==
    /\ Len(expr) <= MaxTrigLen
    /\ InDomain(expr)
    /\ Len(history) <= MaxTape

NextMode ==
    \/ \E t \in TrigTexts : ButtonInsert(t) /\ ExploredMode'
    \/ backspace /\ ExploredMode'
    \/ clearAll /\ ExploredMode'
    \/ ButtonEquals /\ ExploredMode'
    \/ KeyEquals /\ ExploredMode'
    \/ \E b \in BOOLEAN : setDegMode(b) /\ ExploredMode'

SpecMode == Init /\ [][NextMode]_vars

\* The sign toggle
ExploredSign ==
    /\ Len(expr) <= MaxSignLen
    /\ InDomain(expr)
    /\ Len(history) <= MaxTape

NextSign ==
    \/ \E t \in MemoryTexts : ButtonInsert(t) /\ ExploredSign'
    \/ backspace /\ ExploredSign'
    \/ clearAll /\ ExploredSign'
    \/ toggleSign /\ ExploredSign'
    \/ ButtonEquals /\ ExploredSign'

SpecSign == Init /\ [][NextSign]_vars

\* The tape up to its capacity: one-character equations
TapeTexts == {<<"1">>, <<"2">>}

TapeBuffers == {<<>>, <<"1">>, <<"2">>}

ExploredTape == expr \in TapeBuffers

NextTape ==
    \/ \E t \in TapeTexts : ButtonInsert(t) /\ ExploredTape'
    \/ backspace /\ ExploredTape'
    \/ ButtonEquals /\ ExploredTape'
    \/ KeyEquals /\ ExploredTape'
    \/ \E i \in 1..HistoryCap : recall(i) /\ ExploredTape'
    \/ clearHistory /\ ExploredTape'

SpecTape == Init /\ [][NextTape]_vars

\* Every operation, with the tape up to its capacity: short buffers, and
\* tapes that hold one equation repeated
AllBuffers == {<<>>, <<"1">>, <<"-", "1">>, MemName}

ExploredAll ==
    /\ expr \in AllBuffers
    /\ memory \in 0..MaxMem
    /\ \A i \in 1..Len(history) : history[i] = history[1]

NextAll ==
    \/ \E t \in MemoryTexts : ButtonInsert(t) /\ ExploredAll'
    \/ backspace /\ ExploredAll'
    \/ clearAll /\ ExploredAll'
    \/ mr /\ ExploredAll'
    \/ mPlus /\ ExploredAll'
    \/ mMinus /\ ExploredAll'
    \/ toggleSign /\ ExploredAll'
    \/ ButtonEquals /\ ExploredAll'
    \/ KeyEquals /\ ExploredAll'
    \/ \E i \in DOMAIN history : recall(i) /\ ExploredAll'
    \/ clearHistory /\ ExploredAll'
    \/ \E b \in BOOLEAN : setDegMode(b) /\ ExploredAll'

SpecAll == Init /\ [][NextAll]_vars

-----------------------------------------------------------------------------
(* Properties *)

\* what the engine returned to the recorded call of evaluateSafe
Outcome(ev) ==
    IF ev.raw = <<>> THEN [ok |-> TRUE, val |-> 0] ELSE MathEvaluate(ev.handed, ev.scope)

\* C1: in every reachable state the history tape holds at most 10 entries.
TapeBounded == Len(history) <= HistoryCap

\* the tape is full and equals has just pushed onto it, with a memory value
\* and in radian mode
TapeBoundedWitness ==
    /\ Len(history) = HistoryCap
    /\ last.op = "equals"
    /\ Outcome(last.eval).ok
    /\ history[1].eq = last.eval.raw
    /\ memory # 0
    /\ ~degMode

\* C2: a successful equals that evaluates eq to v puts (eq, String(v)) first,
\* keeps the earlier entries behind it in their order, and drops exactly the
\* oldest entry when the tape already held 10.
TapeNewestFirst ==
    [][(last'.op = "equals" /\ Outcome(last'.eval).ok) =>
           history' = <<[eq |-> last'.eval.raw, res |-> ToStr(Outcome(last'.eval).val)]>>
                      \o (IF Len(history) = HistoryCap
                          THEN SubSeq(history, 1, HistoryCap - 1)
                          ELSE history)]_vars

\* a push onto a full tape whose entries differ
TapeNewestFirstWitness ==
    /\ last.op = "equals"
    /\ Outcome(last.eval).ok
    /\ Len(history) = HistoryCap
    /\ history[1] # history[2]
    /\ history[2] # history[HistoryCap]

\* C3: M+ sets the memory to m + v and M- to m - v, v being the value of the
\* buffer when it is non-empty and of the displayed result otherwise; when
\* that evaluation fails nothing changes.
MemoryArithmetic ==
    [][last'.op \in {"mPlus", "mMinus"} =>
           LET raw == IF expr # <<>> THEN expr ELSE display
               v == evaluateSafe(raw, degMode, scope)
           IN  IF v.ok
               THEN memory' = IF last'.op = "mPlus" THEN memory + v.val ELSE memory - v.val
               ELSE UNCHANGED <<expr, display, degMode, memory, originalExpr, afterEquals,
                                history, lastAns, scope, handler>>]_vars

\* M- has subtracted the displayed result, the buffer being empty
MemoryArithmeticWitness ==
    /\ last.op = "mMinus"
    /\ expr = <<>>
    /\ last.eval.raw = display
    /\ display = <<"1">>
    /\ memory = -1

\* the rewrite as described: one pass over the text that gives each
\* trigonometric call not preceded by a word character its degree name
TrigCalls == {SinCall, CosCall, TanCall, AsinCall, AcosCall, AtanCall}

DegreeName(call) == SubSeq(call, 1, Len(call) - 1) \o <<"d", "(">>

RECURSIVE TrigRewrite(_, _)
TrigRewrite(s, i) ==
    IF i > Len(s) THEN <<>>
    ELSE IF \E c \in TrigCalls : MatchAt(s, i, c) /\ (i = 1 \/ ~IsWordChar(s[i - 1]))
         THEN LET c == CHOOSE c \in TrigCalls : MatchAt(s, i, c)
              IN  DegreeName(c) \o TrigRewrite(s, i + Len(c))
         ELSE <<s[i]>> \o TrigRewrite(s, i + 1)

\* C4: in degree mode every trigonometric call not preceded by a word
\* character is handed to the engine with its degree name, in radian mode the
\* text is handed over unchanged, and the buffer and the recorded equation
\* keep the text as typed.
RewriteFollowsMode ==
    last.eval.called =>
        /\ last.eval.handed = IF degMode THEN TrigRewrite(last.eval.raw, 1) ELSE last.eval.raw
        /\ (last.op = "equals" /\ Outcome(last.eval).ok) => history[1].eq = last.eval.raw

\* the rewrite of evaluateSafe is the one C4 describes, whatever the mode in
\* which the evaluation ran
RewriteAsDescribed ==
    last.eval.called =>
        last.eval.handed \in {TrigRewrite(last.eval.raw, 1), last.eval.raw}

\* C5: when the evaluation of equals fails the display becomes "Error" and
\* the after-equals flag is set, and the tape, Ans, the remembered expression,
\* the buffer and the memory stay as they were.
EqualsFailure ==
    [][(last'.op = "equals" /\ ~Outcome(last'.eval).ok) =>
           /\ display' = ErrorText
           /\ afterEquals' = TRUE
           /\ UNCHANGED <<history, lastAns, originalExpr, expr, memory>>]_vars

\* equals has failed with a tape entry, an answer and an equation to keep
EqualsFailureWitness ==
    /\ last.op = "equals"
    /\ ~Outcome(last.eval).ok
    /\ display = ErrorText
    /\ history # <<>>
    /\ lastAns # 0
    /\ originalExpr # <<>>
    /\ expr # originalExpr

\* C6: clear all empties the buffer and the remembered expression, shows "0",
\* clears the after-equals flag and leaves tape, memory and angle mode alone.
ClearAllFrame ==
    [][last'.op = "clearAll" =>
           /\ expr' = <<>>
           /\ display' = ZeroText
           /\ originalExpr' = <<>>
           /\ afterEquals' = FALSE
           /\ UNCHANGED <<history, memory, degMode>>]_vars

\* clear all has run with a tape entry, a memory value and radian mode to keep
ClearAllFrameWitness ==
    /\ last.op = "clearAll"
    /\ history # <<>>
    /\ memory # 0
    /\ ~degMode

\* C7: whenever the buffer is non-empty the expression line shows the buffer.
BufferShown == expr # <<>> => smallLine = expr

\* C8: equals leaves the buffer alone; after equals an operator continues
\* from the displayed result and any other text starts afresh and empties the
\* remembered expression, both clearing the flag; otherwise insert appends
\* the text and changes nothing else.
InsertRule ==
    [][/\ last'.op = "equals" => expr' = expr
       /\ last'.op = "insert" =>
              LET text == last'.arg
              IN  IF afterEquals
                  THEN /\ afterEquals' = FALSE
                       /\ IF IsOp(text)
                          THEN expr' = display \o text
                          ELSE expr' = text /\ originalExpr' = <<>>
                  ELSE /\ expr' = expr \o text
                       /\ UNCHANGED <<display, degMode, memory, originalExpr,
                                      afterEquals, history, lastAns>>]_vars

\* an operator has continued from a result that differs from the old buffer
InsertRuleWitness ==
    /\ last.op = "insert"
    /\ IsOp(last.arg)
    /\ ~afterEquals
    /\ expr = display \o last.arg
    /\ originalExpr # <<>>
    /\ originalExpr # display

\* the text names the variable Ans
ContainsAns(s) == \E i \in 1..Len(s) : MatchAt(s, i, AnsName)

\* C9: an evaluation of an expression that contains Ans binds Ans to the
\* value of the most recent successful equals (0 before the first).
AnsIsLastAnswer ==
    [][(last'.eval.called /\ ContainsAns(last'.eval.raw)) =>
           last'.eval.scope.Ans = lastAns]_vars

\* C10: the Enter and = keys do what the = button does.
KeyEqualsIsButtonEquals == [][KeyEquals => ButtonEquals]_vars

====
